---------------------------- MODULE Spec2Model ----------------------------
(***************************************************************************)
(* A model of BayesMonophyly.py: the NEXUS tree-block parser, the taxon    *)
(* checks, the monophyly count, the topology-count prior, the posterior,   *)
(* the Bayes factor and the main script that strings them together.        *)
(*                                                                         *)
(* Text is modelled at character level: a string is a sequence of          *)
(* one-character strings, a file is the sequence of lines readlines()      *)
(* returns (each line keeps its final "\n").  Python indices are 0-based;  *)
(* the model keeps the 0-based values of the script's index variables and  *)
(* adds 1 where it subscripts a TLA+ sequence.  Python's numbers are       *)
(* modelled exactly: a quotient is a reduced fraction [num, den].          *)
(***************************************************************************)
EXTENDS Integers, Sequences, FiniteSets, TLC

VARIABLES
    \* a call of parse_tree_file
    treefile,             \* the file at the path passed
    parsed,               \* what the call returned or raised
    given,                \* how the file was put together
    \* a call of check_species_equivalency
    tables,               \* the list of dictionaries passed
    equivalency,          \* what the call returned or raised
    \* calls of compute_prior, n_unrooted_trees and n_rooted_trees
    prior_call,           \* the arguments num_taxa, num_species, rooted
    prior_returned,       \* what compute_prior returned or raised
    count_call,           \* the argument n
    unrooted_returned,    \* what n_unrooted_trees(n) returned or raised
    rooted_returned,      \* what n_rooted_trees(n) returned or raised
    \* a run of the script (the __main__ block)
    pc,                   \* the statement the run is at
    args,                 \* species, input, burnin, rooted
    all_translated_taxa,
    all_trees,
    all_trees_burned,
    num_total,
    translated_species,
    num_monophyletic,
    prior,
    posterior,
    bayes,                \* the script's variable bayes_factor
    output,               \* what has been printed so far
    failure               \* the exception or exit that ended the run

parseVars == <<treefile, parsed, given>>
equivVars == <<tables, equivalency>>
priorVars == <<prior_call, prior_returned, count_call, unrooted_returned, rooted_returned>>
mainVars  == <<pc, args, all_translated_taxa, all_trees, all_trees_burned, num_total,
               translated_species, num_monophyletic, prior, posterior, bayes, output,
               failure>>
vars == <<parseVars, equivVars, priorVars, mainVars>>

\* the value of a variable not assigned yet
None == [kind |-> "none"]

(***************************************************************************)
(* Python's str and list operations used by the script.                    *)
(***************************************************************************)
Digits == {"0","1","2","3","4","5","6","7","8","9"}

\* the characters str.split() and str.strip() treat as whitespace: space,
\* tab, line feed, carriage return, form feed and vertical tab
Whitespace == {" ", "\t", "\n", "\r", "\f", ""}

UpperCase == <<"A","B","C","D","E","F","G","H","I","J","K","L","M",
               "N","O","P","Q","R","S","T","U","V","W","X","Y","Z">>
LowerCase == <<"a","b","c","d","e","f","g","h","i","j","k","l","m",
               "n","o","p","q","r","s","t","u","v","w","x","y","z">>

LowerChar(c) ==
    IF \E i \in 1..Len(UpperCase) : UpperCase[i] = c
    THEN LowerCase[CHOOSE i \in 1..Len(UpperCase) : UpperCase[i] = c]
    ELSE c

\* s.lower()
Lower(s) == [i \in 1..Len(s) |-> LowerChar(s[i])]

RECURSIVE LStrip(_, _)
LStrip(s, chars) ==
    IF s # <<>> /\ Head(s) \in chars THEN LStrip(Tail(s), chars) ELSE s

RECURSIVE RStrip(_, _)
RStrip(s, chars) ==
    IF s # <<>> /\ s[Len(s)] \in chars
    THEN RStrip(SubSeq(s, 1, Len(s) - 1), chars)
    ELSE s

\* s.strip(chars)
Strip(s, chars) == RStrip(LStrip(s, chars), chars)

\* s[a:b] and s[a:] for a list or a string, with Python's clamping of the
\* bounds and its reading of a negative bound as counted from the end
PyIndex(n, i) == IF i < 0 THEN (IF n + i < 0 THEN 0 ELSE n + i)
                 ELSE (IF i > n THEN n ELSE i)
Slice(s, a, b) == SubSeq(s, PyIndex(Len(s), a) + 1, PyIndex(Len(s), b))
SliceFrom(s, a) == SubSeq(s, PyIndex(Len(s), a) + 1, Len(s))

StartsWith(s, p) == Len(s) >= Len(p) /\ SubSeq(s, 1, Len(p)) = p

\* s.split(): the maximal runs of non-whitespace characters
RECURSIVE SplitWhitespace(_, _, _)
SplitWhitespace(s, cur, acc) ==
    IF s = <<>> THEN (IF cur = <<>> THEN acc ELSE Append(acc, cur))
    ELSE IF Head(s) \in Whitespace
         THEN SplitWhitespace(Tail(s), <<>>,
                              IF cur = <<>> THEN acc ELSE Append(acc, cur))
         ELSE SplitWhitespace(Tail(s), Append(cur, Head(s)), acc)
Split(s) == SplitWhitespace(s, <<>>, <<>>)

\* s.split(sep): the pieces between the occurrences of sep, left to right
RECURSIVE SplitSeparator(_, _, _, _)
SplitSeparator(s, sep, cur, acc) ==
    IF s = <<>> THEN Append(acc, cur)
    ELSE IF StartsWith(s, sep)
         THEN SplitSeparator(SubSeq(s, Len(sep) + 1, Len(s)), sep, <<>>,
                             Append(acc, cur))
         ELSE SplitSeparator(Tail(s), sep, Append(cur, Head(s)), acc)
SplitOn(s, sep) == SplitSeparator(s, sep, <<>>, <<>>)

\* int(tok): an optional sign and one or more decimal digits, else ValueError
IntBody(tok) == IF tok # <<>> /\ Head(tok) \in {"+", "-"} THEN Tail(tok) ELSE tok
IsIntLiteral(tok) ==
    /\ IntBody(tok) # <<>>
    /\ \A i \in 1..Len(IntBody(tok)) : IntBody(tok)[i] \in Digits
DigitValue(c) == CHOOSE v \in 0..9 : <<"0","1","2","3","4","5","6","7","8","9">>[v + 1] = c
RECURSIVE DigitsValue(_, _)
DigitsValue(ds, acc) ==
    IF ds = <<>> THEN acc
    ELSE DigitsValue(Tail(ds), 10 * acc + DigitValue(Head(ds)))
IntOf(tok) ==
    IF Head(tok) = "-" THEN 0 - DigitsValue(IntBody(tok), 0)
    ELSE DigitsValue(IntBody(tok), 0)

\* str(n) of an integer
RECURSIVE NatStr(_)
NatStr(n) ==
    IF n < 10 THEN << <<"0","1","2","3","4","5","6","7","8","9">>[n + 1] >>
    ELSE Append(NatStr(n \div 10), <<"0","1","2","3","4","5","6","7","8","9">>[(n % 10) + 1])
Str(n) == IF n < 0 THEN <<"-">> \o NatStr(0 - n) ELSE NatStr(n)

(***************************************************************************)
(* The dict of translated_taxa, with int keys.  A dict is its hash table   *)
(* (slots, each empty or holding one key) and the value stored at each     *)
(* key.  The table is the one of CPython 2.7 on a 64-bit build: 8 slots    *)
(* at first, an int hashes to itself, a taken slot sends the key along the *)
(* probe sequence i = 5*i + perturb + 1 with perturb shifted right by 5    *)
(* bits a probe, and the table is rebuilt with more slots once two thirds  *)
(* of them are taken.  Iteration goes through the slots in order.          *)
(***************************************************************************)
RECURSIVE Raised(_, _)
Raised(b, n) == IF n = 0 THEN 1 ELSE b * Raised(b, n - 1)

DictHash(key) == IF key = 0 - 1 THEN 0 - 2 ELSE key

\* the low bits (modulo size, a power of two) of the unsigned 64-bit
\* perturb after j shifts
PerturbBits(hash, j, size) ==
    IF j >= 13 THEN 0
    ELSE IF j <= 6 THEN (hash \div Raised(32, j)) % size
    ELSE IF hash >= 0 THEN 0
    ELSE (IF Raised(2, 64 - 5 * j) < size THEN Raised(2, 64 - 5 * j) ELSE size) - 1

\* the first empty slot on the probe sequence of hash, from slot i on
RECURSIVE FreeSlot(_, _, _, _)
FreeSlot(slots, i, hash, j) ==
    IF slots[i + 1] = <<>> THEN i
    ELSE FreeSlot(slots, (5 * i + PerturbBits(hash, j, Len(slots)) + 1) % Len(slots),
                  hash, j + 1)

\* a key that the table does not hold yet is put into its slot
Place(slots, key) ==
    [slots EXCEPT ![FreeSlot(slots, DictHash(key) % Len(slots), DictHash(key), 0) + 1]
                      = <<key>>]

RECURSIVE PlaceAll(_, _)
PlaceAll(slots, keys) ==
    IF keys = <<>> THEN slots ELSE PlaceAll(Place(slots, Head(keys)), Tail(keys))

\* the keys in iteration order
SlotKeys(slots) ==
    LET taken == SelectSeq(slots, LAMBDA s : s # <<>>)
    IN  [i \in 1..Len(taken) |-> taken[i][1]]

EmptySlots(size) == [i \in 1..size |-> <<>>]

\* the size of the rebuilt table: the first power of two above minused
RECURSIVE NewSize(_, _)
NewSize(size, minused) == IF size > minused THEN size ELSE NewSize(2 * size, minused)

\* dict()
EmptyDict == [slots |-> EmptySlots(8), at |-> <<>>]

\* d[key] = value on a dict: a store to a key it holds overwrites the value
\* and leaves the table alone
DictSet(d, key, value) ==
    IF key \in DOMAIN d.at
    THEN [slots |-> d.slots,
          at |-> [k \in DOMAIN d.at |-> IF k = key THEN value ELSE d.at[k]]]
    ELSE LET placed == Place(d.slots, key)
             used == Cardinality(DOMAIN d.at) + 1
         IN  [slots |-> IF used * 3 >= Len(placed) * 2
                        THEN PlaceAll(EmptySlots(NewSize(8,
                                 (IF used > 50000 THEN 2 ELSE 4) * used)),
                                 SlotKeys(placed))
                        ELSE placed,
              at |-> [k \in (DOMAIN d.at) \cup {key} |->
                        IF k = key THEN value ELSE d.at[k]]]

\* the dict that storing the (key, value) pairs in their order gives
RECURSIVE DictOf(_)
DictOf(pairs) ==
    IF pairs = <<>> THEN EmptyDict
    ELSE DictSet(DictOf(SubSeq(pairs, 1, Len(pairs) - 1)),
                 pairs[Len(pairs)][1], pairs[Len(pairs)][2])

(***************************************************************************)
(* The two regular expressions of parse_tree_file.  Every element after    *)
(* the first is optional or starred, so the leftmost greedy match is the   *)
(* match re.sub removes; *End gives the 1-based position after a match     *)
(* that starts at i, or 0 when none starts there.                          *)
(***************************************************************************)
RECURSIVE SkipDigits(_, _)
SkipDigits(s, i) ==
    IF i <= Len(s) /\ s[i] \in Digits THEN SkipDigits(s, i + 1) ELSE i
SkipDot(s, i) == IF i <= Len(s) /\ s[i] = "." THEN i + 1 ELSE i
\* ([eE]-[0-9]+)?
SkipExponent(s, i) ==
    IF i + 2 <= Len(s) /\ s[i] \in {"e", "E"} /\ s[i + 1] = "-" /\ s[i + 2] \in Digits
    THEN SkipDigits(s, i + 2)
    ELSE i

\* [&rate=
RatePrefix == <<"[","&","r","a","t","e","=">>

\* \[&rate=[0-9]*\.?[0-9]*([eE]-[0-9]+)?\]
RateEnd(s, i) ==
    IF StartsWith(SubSeq(s, i, Len(s)), RatePrefix)
    THEN LET j == SkipExponent(s, SkipDigits(s, SkipDot(s, SkipDigits(s, i + Len(RatePrefix)))))
         IN  IF j <= Len(s) /\ s[j] = "]" THEN j + 1 ELSE 0
    ELSE 0

\* :[0-9]+\.?[0-9]*([eE]-[0-9]+)?
BranchLengthEnd(s, i) ==
    IF i + 1 <= Len(s) /\ s[i] = ":" /\ s[i + 1] \in Digits
    THEN SkipExponent(s, SkipDigits(s, SkipDot(s, SkipDigits(s, i + 1))))
    ELSE 0

RECURSIVE SubRate(_, _, _)
SubRate(s, i, acc) ==
    IF i > Len(s) THEN acc
    ELSE IF RateEnd(s, i) # 0 THEN SubRate(s, RateEnd(s, i), acc)
    ELSE SubRate(s, i + 1, Append(acc, s[i]))

RECURSIVE SubBranchLength(_, _, _)
SubBranchLength(s, i, acc) ==
    IF i > Len(s) THEN acc
    ELSE IF BranchLengthEnd(s, i) # 0 THEN SubBranchLength(s, BranchLengthEnd(s, i), acc)
    ELSE SubBranchLength(s, i + 1, Append(acc, s[i]))

Contains(s, c) == \E i \in 1..Len(s) : s[i] = c

(***************************************************************************)
(* parse_tree_file                                                         *)
(***************************************************************************)
\* what a call ends with: a returned value or a raised exception
Raise(type, message) == [kind |-> type, msg |-> message]

\* the messages of the ParsingErrors the parser raises
CouldNotOpen == "Couldn't open file, does file exists?"
NotNexus == "No NEXUS header. Is file NEXUS?"
NoTreesBlock == "Begin trees block not found!"
MalformedTranslate == "ERROR: Misformed Begin trees block, \"translate\" not found."
NoTranslateEnd == "ERROR: end of translation block not found."
NoTrees == "ERROR: no tree was found!"

\* #nexus
NexusHeader == <<"#","n","e","x","u","s">>
\* begin trees;
BeginTrees == <<"b","e","g","i","n"," ","t","r","e","e","s",";">>
\* translate
Translate == <<"t","r","a","n","s","l","a","t","e">>
\* tree
TreeWord == <<"t","r","e","e">>
\* end
EndWord == <<"e","n","d">>
\* "[&U] "
UnrootedMarker == <<"[","&","U","]"," ">>
\* " = "
Separator == <<" ","="," ">>

Least(S) == CHOOSE m \in S : \A x \in S : m <= x

\* the loop that looks for "begin trees;": the index of the first such line,
\* and 0 when the loop ends without a break
FindBeginTrees(text) ==
    LET hits == {num \in 0..(Len(text) - 1) :
                    Lower(Strip(text[num + 1], {"\n", "\t", " "})) = BeginTrees}
    IN  IF hits = {} THEN 0 ELSE Least(hits)

\* the translate loop from line n on: it stores id -> name for every line of
\* exactly two tokens and breaks at the first other line, whose index is
\* begin_block_end (0 when the lines run out first)
RECURSIVE TranslateBlock(_, _, _)
TranslateBlock(text, n, taxa) ==
    IF n >= Len(text)
    THEN [kind |-> "ok", begin_block_end |-> 0, translated_taxa |-> taxa]
    ELSE LET pair == Split(Strip(text[n + 1], {"\n", "\t", ",", " "}))
         IN  IF Len(pair) # 2
             THEN [kind |-> "ok", begin_block_end |-> n, translated_taxa |-> taxa]
             ELSE IF ~IsIntLiteral(pair[1])
             THEN Raise("ValueError", "invalid literal for int() with base 10")
             ELSE TranslateBlock(text, n + 1, DictSet(taxa, IntOf(pair[1]), pair[2]))

\* the loop that looks for the first tree in tree_file_text[first:]
FindTreesStartFrom(text, first) ==
    LET hits == {num \in first..(Len(text) - 1) :
                    Lower(Slice(Strip(text[num + 1], {"\n", "\t", " "}), 0, 4)) = TreeWord}
    IN  IF hits = {} THEN 0 ELSE Least(hits)

\* the scan for the first tree starts on the line after begin_block_end
FindTreesStart(text, begin_block_end) ==
    FindTreesStartFrom(text, begin_block_end + 1)

\* the payload of one tree line turned into a bare cladogram
Cladogram(payload) ==
    LET unmarked == IF Slice(payload, 0, 5) = UnrootedMarker
                    THEN SliceFrom(payload, 5) ELSE payload
        unrated  == IF Contains(unmarked, "[")
                    THEN SubRate(unmarked, 1, <<>>) ELSE unmarked
    IN  SubBranchLength(unrated, 1, <<>>)

\* the loop over tree_file_text[trees_start:]
RECURSIVE ReadTrees(_, _, _)
ReadTrees(text, n, trees) ==
    IF n >= Len(text) THEN [kind |-> "ok", trees |-> trees]
    ELSE LET line == Strip(text[n + 1], {"\n", "\t", " ", ";"})
         IN  IF Lower(line) = EndWord THEN [kind |-> "ok", trees |-> trees]
             ELSE IF Len(SplitOn(line, Separator)) < 2
             THEN Raise("IndexError", "list index out of range")
             ELSE ReadTrees(text, n + 1,
                    Append(trees, Cladogram(Strip(SplitOn(line, Separator)[2], Whitespace))))

\* the body of parse_tree_file once readlines() has given tree_file_text
ParseLines(tree_file_text) ==
    IF Len(tree_file_text) = 0
    THEN Raise("IndexError", "list index out of range")
    ELSE IF Lower(Strip(tree_file_text[1], {"\n", "\t", " "})) # NexusHeader
    THEN Raise("ParsingError", NotNexus)
    ELSE LET begin_block_start == FindBeginTrees(tree_file_text) IN
    IF begin_block_start = 0
    THEN Raise("ParsingError", NoTreesBlock)
    ELSE IF begin_block_start + 1 >= Len(tree_file_text)
    THEN Raise("IndexError", "list index out of range")
    ELSE IF Lower(Strip(tree_file_text[begin_block_start + 2], {"\n", "\t", " "})) # Translate
    THEN Raise("ParsingError", MalformedTranslate)
    ELSE LET block == TranslateBlock(tree_file_text, begin_block_start + 2, EmptyDict) IN
    IF block.kind # "ok" THEN block
    ELSE IF block.begin_block_end = 0
    THEN Raise("ParsingError", NoTranslateEnd)
    ELSE LET trees_start == FindTreesStart(tree_file_text, block.begin_block_end) IN
    IF trees_start = 0
    THEN Raise("ParsingError", NoTrees)
    ELSE LET read == ReadTrees(tree_file_text, trees_start, <<>>) IN
    IF read.kind # "ok" THEN read
    ELSE [kind |-> "ok", translated_taxa |-> block.translated_taxa, trees |-> read.trees]

\* a file is [exists |-> FALSE] or [exists |-> TRUE, lines |-> its lines]
parse_tree_file(file) ==
    IF ~file.exists THEN Raise("ParsingError", CouldNotOpen)
    ELSE ParseLines(file.lines)

(***************************************************************************)
(* check_species_in_taxa, check_species_equivalency, translate_species     *)
(***************************************************************************)
Returned == [kind |-> "ok"]

\* translated_taxa.values()
Values(d) == {d.at[k] : k \in DOMAIN d.at}

RECURSIVE check_species_in_taxa(_, _)
check_species_in_taxa(species, translated_taxa) ==
    IF species = <<>> THEN Returned
    ELSE IF Head(species) \notin Values(translated_taxa)
    THEN [kind |-> "RuntimeError", msg |-> "Species \"{0}\" is not in tree taxa!",
          specie |-> Head(species)]
    ELSE check_species_in_taxa(Tail(species), translated_taxa)

\* d.items() followed by sort(): the (key, value) pairs by ascending key
RECURSIVE SortedItemsOf(_, _)
SortedItemsOf(d, keys) ==
    IF keys = {} THEN <<>>
    ELSE <<  <<Least(keys), d[Least(keys)]>>  >> \o SortedItemsOf(d, keys \ {Least(keys)})
SortedItems(d) == SortedItemsOf(d.at, DOMAIN d.at)

\* the index of the first position where the zipped lists differ, 0 if none
FirstDifference(template_items, matched_items) ==
    LET n == IF Len(template_items) < Len(matched_items)
             THEN Len(template_items) ELSE Len(matched_items)
        differing == {i \in 1..n : template_items[i] # matched_items[i]}
    IN  IF differing = {} THEN 0 ELSE Least(differing)

\* a comparison that stops after the two lengths
CompareCountsOnly(template_dict, matched_dict, num) ==
    IF Cardinality(DOMAIN template_dict.at) # Cardinality(DOMAIN matched_dict.at)
    THEN [kind |-> "RuntimeError",
          msg |-> "Number of taxa in file 1 and file {0} is different!",
          file |-> num + 2]
    ELSE None

\* the comparison of one matched_dict with the template, None when it passes
CompareWithTemplate(template_dict, matched_dict, num) ==
    IF Cardinality(DOMAIN template_dict.at) # Cardinality(DOMAIN matched_dict.at)
    THEN [kind |-> "RuntimeError",
          msg |-> "Number of taxa in file 1 and file {0} is different!",
          file |-> num + 2]
    ELSE IF FirstDifference(SortedItems(template_dict), SortedItems(matched_dict)) # 0
    THEN [kind |-> "RuntimeError",
          msg |-> "Number or taxa name differs in file 1 {1} and file {0} {2}! They are probably not equivalent!",
          file |-> num + 2]
    ELSE None

\* the loop over enumerate(list_of_dicts[1:])
RECURSIVE CompareAll(_, _)
CompareAll(list_of_dicts, num) ==
    IF num + 2 > Len(list_of_dicts) THEN Returned
    ELSE IF CompareWithTemplate(list_of_dicts[1], list_of_dicts[num + 2], num) # None
    THEN CompareWithTemplate(list_of_dicts[1], list_of_dicts[num + 2], num)
    ELSE CompareAll(list_of_dicts, num + 1)

\* a check that accepts every list
NoEquivalencyCheck(list_of_dicts) == Returned

check_species_equivalency(list_of_dicts) ==
    IF Len(list_of_dicts) = 0
    THEN Raise("RuntimeError",
               " For some reason, no dictionary of translated_taxa was passed.")
    ELSE IF Len(list_of_dicts) = 1 THEN Returned
    ELSE CompareAll(list_of_dicts, 0)

\* reversed_dict[item]: the dict comprehension stores value -> key while it
\* iterates translate_dict, so of several ids with one name the one that is
\* iterated last stays
ReversedLookup(translate_dict, item) ==
    LET order == SlotKeys(translate_dict.slots)
        hits == {i \in 1..Len(order) : translate_dict.at[order[i]] = item}
    IN  order[CHOOSE m \in hits : \A i \in hits : i <= m]

translate_species(translate_dict, species) ==
    IF \E i \in 1..Len(species) : species[i] \notin Values(translate_dict)
    THEN Raise("KeyError", "")
    ELSE [kind |-> "ok",
          value |-> [i \in 1..Len(species) |-> Str(ReversedLookup(translate_dict, species[i]))]]

(***************************************************************************)
(* ete2solution.  ete2.Tree reads the Newick text into a tree: a leaf is   *)
(* [name |-> token], an internal node is [children |-> <<node, ...>>].     *)
(* check_monophyly is called without a rootedness argument: it takes the   *)
(* common ancestor of the leaves named in values and answers whether the   *)
(* leaves below that node are exactly those.                               *)
(***************************************************************************)
CountOf(s, c) == Cardinality({i \in 1..Len(s) : s[i] = c})

\* the texts ete2.Tree refuses with NewickError
NewickError(newick) ==
    \/ newick = <<>>
    \/ newick[Len(newick)] # ";"
    \/ CountOf(newick, "(") # CountOf(newick, ")")

RECURSIVE TokenEnd(_, _)
TokenEnd(nw, i) ==
    IF i > Len(nw) \/ nw[i] \in {",", ")", ";"} THEN i ELSE TokenEnd(nw, i + 1)

RECURSIVE ReadNode(_, _), ReadChildren(_, _, _)
ReadNode(nw, i) ==
    IF i <= Len(nw) /\ nw[i] = "("
    THEN ReadChildren(nw, i + 1, <<>>)
    ELSE [node |-> [name |-> SubSeq(nw, i, TokenEnd(nw, i) - 1)],
          next |-> TokenEnd(nw, i)]
ReadChildren(nw, i, acc) ==
    LET r == ReadNode(nw, i)
    IN  IF r.next <= Len(nw) /\ nw[r.next] = ","
        THEN ReadChildren(nw, r.next + 1, Append(acc, r.node))
        ELSE [node |-> [children |-> Append(acc, r.node)], next |-> r.next + 1]

\* ete2.Tree(newick)
Tree(newick) == ReadNode(newick, 1).node

IsLeaf(node) == "name" \in DOMAIN node

\* the names of the leaves below a node
RECURSIVE Leaves(_)
Leaves(node) ==
    IF IsLeaf(node) THEN {node.name}
    ELSE UNION {Leaves(node.children[i]) : i \in 1..Len(node.children)}

\* the leaf sets of a node and of every node below it
RECURSIVE Clades(_)
Clades(node) ==
    IF IsLeaf(node) THEN {Leaves(node)}
    ELSE {Leaves(node)} \cup UNION {Clades(node.children[i]) : i \in 1..Len(node.children)}

\* the leaves below the common ancestor of the target leaves: the smallest
\* clade that holds them all
CommonAncestorLeaves(tree, targets) ==
    CHOOSE c \in Clades(tree) :
        /\ targets \subseteq c
        /\ \A d \in Clades(tree) : targets \subseteq d => c \subseteq d

SetOf(seq) == {seq[i] : i \in 1..Len(seq)}

\* ete2_tree.check_monophyly(values=..., target_attr="name")[0]
check_monophyly(tree, values) ==
    IF ~(SetOf(values) \subseteq Leaves(tree))
    THEN Raise("ValueError", "not all of the values exist in the tree")
    ELSE [kind |-> "ok",
          value |-> (CommonAncestorLeaves(tree, SetOf(values)) = SetOf(values))]

\* what one pass of the loop body adds to the counter
Increment(tree, species_ids) ==
    IF check_monophyly(tree, species_ids).value THEN 1 ELSE 0

\* the loop over trees; printed collects what the except branches print
RECURSIVE CountMonophyletic(_, _, _)
CountMonophyletic(trees, species_ids, monophyletic_counter) ==
    IF trees = <<>>
    THEN [kind |-> "ok", value |-> monophyletic_counter, printed |-> <<>>]
    ELSE IF NewickError(Head(trees) \o <<";">>)
    THEN [kind |-> "RuntimeError",
          msg |-> "Problem with turning text into tree with ete2!",
          printed |-> << [kind |-> "text", value |-> Head(trees)] >>]
    ELSE IF check_monophyly(Tree(Head(trees) \o <<";">>), species_ids).kind # "ok"
    THEN [kind |-> "RuntimeError",
          msg |-> "Species are not in tree. Error in translating?",
          printed |-> << [kind |-> "text", value |-> species_ids],
                         [kind |-> "text", value |-> Head(trees)] >>]
    ELSE CountMonophyletic(Tail(trees), species_ids,
            monophyletic_counter
              + Increment(Tree(Head(trees) \o <<";">>), species_ids))

ete2solution(trees, species_ids) ==
    CountMonophyletic(trees, species_ids, 0)

(***************************************************************************)
(* n_unrooted_trees, n_rooted_trees, compute_prior, compute_posterior,     *)
(* bayes_factor.  `/` is true division (from __future__ import division):  *)
(* a quotient is kept as the reduced fraction [num, den].                  *)
(***************************************************************************)
RECURSIVE GCD(_, _)
GCD(a, b) == IF b = 0 THEN a ELSE GCD(b, a % b)
Abs(x) == IF x < 0 THEN 0 - x ELSE x

\* the number num/den, den # 0
Fraction(num, den) ==
    LET g == GCD(Abs(num), Abs(den))
        s == IF den < 0 THEN 0 - 1 ELSE 1
    IN  [num |-> s * (num \div g), den |-> s * (den \div g)]
Whole(n) == [num |-> n, den |-> 1]
Times(x, y) == Fraction(x.num * y.num, x.den * y.den)
\* x / y, y # 0
Over(x, y) == Fraction(x.num * y.den, x.den * y.num)
Minus(x, y) == Fraction(x.num * y.den - y.num * x.den, x.den * y.den)
RECURSIVE Power(_, _)
Power(x, n) == IF n = 0 THEN Whole(1) ELSE Times(x, Power(x, n - 1))
IsZero(x) == x.num = 0
IsOne(x) == x.num = x.den

NumberOf(x) == [kind |-> "ok", value |-> x]

RECURSIVE Factorial(_)
Factorial(n) == IF n <= 1 THEN 1 ELSE n * Factorial(n - 1)
RECURSIVE TwoTo(_)
TwoTo(n) == IF n = 0 THEN 1 ELSE 2 * TwoTo(n - 1)

FactorialError == Raise("ValueError", "factorial() not defined for negative values")

\* math.factorial(2*n-5) / (2**(n-3) * math.factorial(n-3))
n_unrooted_trees(n) ==
    IF 2 * n - 5 < 0 \/ n - 3 < 0 THEN FactorialError
    ELSE NumberOf(Fraction(Factorial(2 * n - 5), TwoTo(n - 3) * Factorial(n - 3)))

\* math.factorial(2*n-3) / (2**(n-2) * math.factorial(n-2))
n_rooted_trees(n) ==
    IF 2 * n - 3 < 0 \/ n - 2 < 0 THEN FactorialError
    ELSE NumberOf(Fraction(Factorial(2 * n - 3), TwoTo(n - 2) * Factorial(n - 2)))

\* the checks compute_prior makes on the quotient it computed
CheckedPrior(quotient) ==
    IF IsOne(quotient) THEN Raise("ValueError", "Prior is one.")
    ELSE IF IsZero(quotient) THEN Raise("ValueError", "Prior is zero.")
    ELSE NumberOf(quotient)

\* (outer(num_taxa-num_species+1) * n_rooted_trees(num_species)) / outer(num_taxa)
\* the three counts are evaluated left to right; the first that raises ends the call
PriorQuotient(collapsed, clade, whole) ==
    IF collapsed.kind # "ok" THEN collapsed
    ELSE IF clade.kind # "ok" THEN clade
    ELSE IF whole.kind # "ok" THEN whole
    ELSE CheckedPrior(Over(Times(collapsed.value, clade.value), whole.value))

compute_prior(num_taxa, num_species, rooted) ==
    IF rooted
    THEN PriorQuotient(n_rooted_trees(num_taxa - num_species + 1),
                       n_rooted_trees(num_species), n_rooted_trees(num_taxa))
    ELSE PriorQuotient(n_unrooted_trees(num_taxa - num_species + 1),
                       n_rooted_trees(num_species), n_unrooted_trees(num_taxa))

\* the quotient without the check for 1
PosteriorUnchecked(monophyletic, total) ==
    IF total = 0
    THEN Raise("ZeroDivisionError", "division by zero")
    ELSE NumberOf(Fraction(monophyletic, total))

compute_posterior(monophyletic, total) ==
    IF total = 0
    THEN Raise("ZeroDivisionError", "division by zero")
    ELSE IF IsOne(Fraction(monophyletic, total))
    THEN Raise("ValueError", "Posterior is one")
    ELSE NumberOf(Fraction(monophyletic, total))

\* the ratio of the probabilities instead of the ratio of the odds
ProbabilityRatio(pri, post) ==
    IF IsZero(pri)
    THEN Raise("ZeroDivisionError", "float division by zero")
    ELSE NumberOf(Over(post, pri))

\* (posterior/(1-posterior)) / (prior/(1-prior))
bayes_factor(pri, post) ==
    IF IsOne(post) \/ IsOne(pri) \/ IsZero(pri)
    THEN Raise("ZeroDivisionError", "float division by zero")
    ELSE NumberOf(Over(Over(post, Minus(Whole(1), post)),
                       Over(pri, Minus(Whole(1), pri))))

\* int(round(x)) for x >= 0: halves round away from zero
RoundToInt(x) == (2 * x.num + x.den) \div (2 * x.den)

\* int(x) for x >= 0 or x an integer
IntPart(x) == IF x.num >= 0 THEN x.num \div x.den ELSE 0 - ((0 - x.num) \div x.den)

(***************************************************************************)
(* Input files.                                                            *)
(***************************************************************************)
\* "#NEXUS\n"
LineNexus == <<"#","N","E","X","U","S","\n">>
\* "\n"
LineBlank == <<"\n">>
\* "Begin trees;\n"
LineBegin == <<"B","e","g","i","n"," ","t","r","e","e","s",";","\n">>
\* "\tTranslate\n"
LineTranslate == <<"\t","T","r","a","n","s","l","a","t","e","\n">>
\* "\t\t1 A,\n"
LinePair1 == <<"\t","\t","1"," ","A",",","\n">>
\* "\t\t2 B,\n"
LinePair2 == <<"\t","\t","2"," ","B",",","\n">>
\* "\t\t3 C\r\n", a line that ends as the lines of a DOS file do
LinePair3 == <<"\t","\t","3"," ","C","\r","\n">>
\* "\t\t;\n"
LineSemi == <<"\t","\t",";","\n">>
\* "tree a = [&U] (1:0.1,(2:0.2,3:1.5e-3):0.4);\n"
LineTreeA == <<"t","r","e","e"," ","a"," ","="," ","[","&","U","]"," ","(","1",":","0",".","1",",","(","2",":","0",".","2",",","3",":","1",".","5","e","-","3",")",":","0",".","4",")",";","\n">>
\* "tree b = ((1[&rate=0.5]:1,2[&rate=1e-2]:2.5):1,3);\n"
LineTreeB == <<"t","r","e","e"," ","b"," ","="," ","(","(","1","[","&","r","a","t","e","=","0",".","5","]",":","1",",","2","[","&","r","a","t","e","=","1","e","-","2","]",":","2",".","5",")",":","1",",","3",")",";","\n">>
\* "tree c = ((1,3),2);\n"
LineTreeC == <<"t","r","e","e"," ","c"," ","="," ","(","(","1",",","3",")",",","2",")",";","\n">>
\* "tree d\n"
LineTreeNoSep == <<"t","r","e","e"," ","d","\n">>
\* "End;\n"
LineEnd == <<"E","n","d",";","\n">>
\* (1,(2,3))
BareA == <<"(","1",",","(","2",",","3",")",")">>
\* ((1,2),3)
BareB == <<"(","(","1",",","2",")",",","3",")">>
\* ((1,3),2)
BareC == <<"(","(","1",",","3",")",",","2",")">>

MaxLines == 5
MaxPairs == 3
MaxTreeLines == 3

\* the lines that files of arbitrary shape are made of
SomeLines == {LineNexus, LineBlank, LineBegin, LineTranslate, LinePair1,
              LineSemi, LineTreeC, LineTreeNoSep}

PairLines == <<LinePair1, LinePair2, LinePair3>>

\* tree-definition lines, each with its Newick payload stripped by hand
TreeLines == << [line |-> LineTreeA, bare |-> BareA],
                [line |-> LineTreeB, bare |-> BareB],
                [line |-> LineTreeC, bare |-> BareC] >>

PairLine(i) == PairLines[((i - 1) % Len(PairLines)) + 1]

\* a file of the input format: the header, the trees block with its
\* translate table of `pairs` lines, ended by a lone ";" line or not, the
\* tree lines and the end line
NexusFile(g) ==
    <<LineNexus, LineBegin, LineTranslate>>
    \o [i \in 1..g.pairs |-> PairLine(i)]
    \o (IF g.lone_end THEN <<LineSemi>> ELSE <<>>)
    \o [i \in 1..Len(g.trees) |-> TreeLines[g.trees[i]].line]
    \o <<LineEnd>>

\* the topology strings such a file holds, in file order
Payloads(g) == [i \in 1..Len(g.trees) |-> TreeLines[g.trees[i]].bare]

NexusShapes ==
    {[shape |-> "nexus", pairs |-> p, lone_end |-> e, trees |-> t] :
        p \in 1..MaxPairs, e \in BOOLEAN,
        t \in UNION {[1..n -> 1..Len(TreeLines)] : n \in 1..MaxTreeLines}}

AnyFiles == UNION {[1..n -> SomeLines] : n \in 0..MaxLines}

\* run1.t
\*   #NEXUS\n
\*   Begin trees;\n
\*   \tTranslate\n
\*   \t\t1 A,\n
\*   \t\t2 B,\n
\*   \t\t3 C,\n
\*   \t\t4 D\n
\*   \t\t;\n
\*   tree STATE_0 = ((1:0.1,2:0.1):0.2,(3:0.1,4:0.1):0.2);\n
\*   tree STATE_1 = ((1,2),(3,4));\n
\*   tree STATE_2 = (((1,2),3),4);\n
\*   tree STATE_3 = ((1,4),(2,3));\n
\*   tree STATE_4 = ((1,2),3,4);\n
\*   End;\n
Run1Lines == <<
    <<"#","N","E","X","U","S","\n">>,
    <<"B","e","g","i","n"," ","t","r","e","e","s",";","\n">>,
    <<"\t","T","r","a","n","s","l","a","t","e","\n">>,
    <<"\t","\t","1"," ","A",",","\n">>,
    <<"\t","\t","2"," ","B",",","\n">>,
    <<"\t","\t","3"," ","C",",","\n">>,
    <<"\t","\t","4"," ","D","\n">>,
    <<"\t","\t",";","\n">>,
    <<"t","r","e","e"," ","S","T","A","T","E","_","0"," ","="," ","(","(","1",":","0",".","1",",","2",":","0",".","1",")",":","0",".","2",",","(","3",":","0",".","1",",","4",":","0",".","1",")",":","0",".","2",")",";","\n">>,
    <<"t","r","e","e"," ","S","T","A","T","E","_","1"," ","="," ","(","(","1",",","2",")",",","(","3",",","4",")",")",";","\n">>,
    <<"t","r","e","e"," ","S","T","A","T","E","_","2"," ","="," ","(","(","(","1",",","2",")",",","3",")",",","4",")",";","\n">>,
    <<"t","r","e","e"," ","S","T","A","T","E","_","3"," ","="," ","(","(","1",",","4",")",",","(","2",",","3",")",")",";","\n">>,
    <<"t","r","e","e"," ","S","T","A","T","E","_","4"," ","="," ","(","(","1",",","2",")",",","3",",","4",")",";","\n">>,
    <<"E","n","d",";","\n">> >>

\* run2.t
\*   #NEXUS\n
\*   \n
\*   Begin trees;\n
\*   \tTranslate\n
\*   \t\t2 B,\n
\*   \t\t1 A,\n
\*   \t\t4 D,\n
\*   \t\t3 C\n
\*   \t\t;\n
\*   tree STATE_0 = ((3,4),(1,2));\n
\*   tree STATE_1 = ((1,2),(3,4));\n
\*   tree STATE_2 = (((1,2),3),4);\n
\*   tree STATE_3 = ((1,2),3,4);\n
\*   End;\n
Run2Lines == <<
    <<"#","N","E","X","U","S","\n">>,
    <<"\n">>,
    <<"B","e","g","i","n"," ","t","r","e","e","s",";","\n">>,
    <<"\t","T","r","a","n","s","l","a","t","e","\n">>,
    <<"\t","\t","2"," ","B",",","\n">>,
    <<"\t","\t","1"," ","A",",","\n">>,
    <<"\t","\t","4"," ","D",",","\n">>,
    <<"\t","\t","3"," ","C","\n">>,
    <<"\t","\t",";","\n">>,
    <<"t","r","e","e"," ","S","T","A","T","E","_","0"," ","="," ","(","(","3",",","4",")",",","(","1",",","2",")",")",";","\n">>,
    <<"t","r","e","e"," ","S","T","A","T","E","_","1"," ","="," ","(","(","1",",","2",")",",","(","3",",","4",")",")",";","\n">>,
    <<"t","r","e","e"," ","S","T","A","T","E","_","2"," ","="," ","(","(","(","1",",","2",")",",","3",")",",","4",")",";","\n">>,
    <<"t","r","e","e"," ","S","T","A","T","E","_","3"," ","="," ","(","(","1",",","2",")",",","3",",","4",")",";","\n">>,
    <<"E","n","d",";","\n">> >>

\* mb.t
\*   #NEXUS\n
\*   [ID: 0123]\n
\*   begin trees;\n
\*      translate\n
\*         1 A,\n
\*         2 B,\n
\*         3 C,\n
\*         8 A,\n
\*         4 D;\n
\*      tree gen.1 = [&U] ((1:0.1,2:0.2):0.1,3:0.3,4:1.0e-2);\n
\*      tree gen.2 = [&U] ((1,3),2,4);\n
\*      tree gen.3 = [&U] ((1,2),3,4);\n
\*   end;\n
MrBayesLines == <<
    <<"#","N","E","X","U","S","\n">>,
    <<"[","I","D",":"," ","0","1","2","3","]","\n">>,
    <<"b","e","g","i","n"," ","t","r","e","e","s",";","\n">>,
    <<" "," "," ","t","r","a","n","s","l","a","t","e","\n">>,
    <<" "," "," "," "," "," ","1"," ","A",",","\n">>,
    <<" "," "," "," "," "," ","2"," ","B",",","\n">>,
    <<" "," "," "," "," "," ","3"," ","C",",","\n">>,
    <<" "," "," "," "," "," ","8"," ","A",",","\n">>,
    <<" "," "," "," "," "," ","4"," ","D",";","\n">>,
    <<" "," "," ","t","r","e","e"," ","g","e","n",".","1"," ","="," ","[","&","U","]"," ","(","(","1",":","0",".","1",",","2",":","0",".","2",")",":","0",".","1",",","3",":","0",".","3",",","4",":","1",".","0","e","-","2",")",";","\n">>,
    <<" "," "," ","t","r","e","e"," ","g","e","n",".","2"," ","="," ","[","&","U","]"," ","(","(","1",",","3",")",",","2",",","4",")",";","\n">>,
    <<" "," "," ","t","r","e","e"," ","g","e","n",".","3"," ","="," ","[","&","U","]"," ","(","(","1",",","2",")",",","3",",","4",")",";","\n">>,
    <<"e","n","d",";","\n">> >>

\* three.t
\*   #NEXUS\n
\*   Begin trees;\n
\*   \tTranslate\n
\*   \t\t1 A,\n
\*   \t\t2 B,\n
\*   \t\t3 C\n
\*   \t\t;\n
\*   tree STATE_0 = ((1,2),3);\n
\*   tree STATE_1 = ((1,3),2);\n
\*   tree STATE_2 = (1,2);\n
\*   End;\n
ThreeLines == <<
    <<"#","N","E","X","U","S","\n">>,
    <<"B","e","g","i","n"," ","t","r","e","e","s",";","\n">>,
    <<"\t","T","r","a","n","s","l","a","t","e","\n">>,
    <<"\t","\t","1"," ","A",",","\n">>,
    <<"\t","\t","2"," ","B",",","\n">>,
    <<"\t","\t","3"," ","C","\n">>,
    <<"\t","\t",";","\n">>,
    <<"t","r","e","e"," ","S","T","A","T","E","_","0"," ","="," ","(","(","1",",","2",")",",","3",")",";","\n">>,
    <<"t","r","e","e"," ","S","T","A","T","E","_","1"," ","="," ","(","(","1",",","3",")",",","2",")",";","\n">>,
    <<"t","r","e","e"," ","S","T","A","T","E","_","2"," ","="," ","(","1",",","2",")",";","\n">>,
    <<"E","n","d",";","\n">> >>

\* noheader.t
\*   Begin trees;\n
\*   \tTranslate\n
\*   \t\t1 A,\n
\*   \t\t2 B\n
\*   \t\t;\n
\*   tree STATE_0 = (1,2);\n
\*   End;\n
NoHeaderLines == <<
    <<"B","e","g","i","n"," ","t","r","e","e","s",";","\n">>,
    <<"\t","T","r","a","n","s","l","a","t","e","\n">>,
    <<"\t","\t","1"," ","A",",","\n">>,
    <<"\t","\t","2"," ","B","\n">>,
    <<"\t","\t",";","\n">>,
    <<"t","r","e","e"," ","S","T","A","T","E","_","0"," ","="," ","(","1",",","2",")",";","\n">>,
    <<"E","n","d",";","\n">> >>

\* badtree.t
\*   #NEXUS\n
\*   Begin trees;\n
\*   \tTranslate\n
\*   \t\t1 A,\n
\*   \t\t2 B,\n
\*   \t\t3 C,\n
\*   \t\t4 D\n
\*   \t\t;\n
\*   tree STATE_0 = ((1,2),(3,4));\n
\*   tree STATE_1 = ((1,2),(3,4);\n
\*   End;\n
BadTreeLines == <<
    <<"#","N","E","X","U","S","\n">>,
    <<"B","e","g","i","n"," ","t","r","e","e","s",";","\n">>,
    <<"\t","T","r","a","n","s","l","a","t","e","\n">>,
    <<"\t","\t","1"," ","A",",","\n">>,
    <<"\t","\t","2"," ","B",",","\n">>,
    <<"\t","\t","3"," ","C",",","\n">>,
    <<"\t","\t","4"," ","D","\n">>,
    <<"\t","\t",";","\n">>,
    <<"t","r","e","e"," ","S","T","A","T","E","_","0"," ","="," ","(","(","1",",","2",")",",","(","3",",","4",")",")",";","\n">>,
    <<"t","r","e","e"," ","S","T","A","T","E","_","1"," ","="," ","(","(","1",",","2",")",",","(","3",",","4",")",";","\n">>,
    <<"E","n","d",";","\n">> >>

\* ((1,2),(3,4))  (((1,2),3),4)  ((1,3),(2,4))  ((1,2),3,4)
Topologies4 == <<
    <<"(","(","1",",","2",")",",","(","3",",","4",")",")">>,
    <<"(","(","(","1",",","2",")",",","3",")",",","4",")">>,
    <<"(","(","1",",","3",")",",","(","2",",","4",")",")">>,
    <<"(","(","1",",","2",")",",","3",",","4",")">> >>

\* ((1,2),(3,4),5)  (((1,2),3),(4,5))  ((((1,2),3),4),5)  (1,2,(3,(4,5)))
Topologies5 == <<
    <<"(","(","1",",","2",")",",","(","3",",","4",")",",","5",")">>,
    <<"(","(","(","1",",","2",")",",","3",")",",","(","4",",","5",")",")">>,
    <<"(","(","(","(","1",",","2",")",",","3",")",",","4",")",",","5",")">>,
    <<"(","1",",","2",",","(","3",",","(","4",",","5",")",")",")">> >>

(***************************************************************************)
(* The script: the statements of the __main__ block, one action each.      *)
(***************************************************************************)
FileNames == {"run1.t", "run2.t", "mb.t", "three.t", "noheader.t", "badtree.t"}

\* open(path): the files the runs can name
FileSystem(path) ==
    CASE path = "run1.t"     -> [exists |-> TRUE, lines |-> Run1Lines]
      [] path = "run2.t"     -> [exists |-> TRUE, lines |-> Run2Lines]
      [] path = "mb.t"       -> [exists |-> TRUE, lines |-> MrBayesLines]
      [] path = "three.t"    -> [exists |-> TRUE, lines |-> ThreeLines]
      [] path = "noheader.t" -> [exists |-> TRUE, lines |-> NoHeaderLines]
      [] path = "badtree.t"  -> [exists |-> TRUE, lines |-> BadTreeLines]
      [] OTHER               -> [exists |-> FALSE]

SystemExit == [kind |-> "SystemExit"]

\* an uncaught exception, or sys.exit(), ends the run
Abort(exception) ==
    /\ pc' = "exit"
    /\ failure' = exception

RECURSIVE Flatten(_)
Flatten(lists) ==
    IF lists = <<>> THEN <<>> ELSE Head(lists) \o Flatten(Tail(lists))

\* trees[int(len(trees)*args.burnin):]
Burned(trees, burnin) ==
    SliceFrom(trees, IntPart(Times(Whole(Len(trees)), burnin)))

\* the burn-in applied once, to the flattened list
BurnedAfterFlatten(trees_of_files, burnin) ==
    Burned(Flatten(trees_of_files), burnin)

\* the two list comprehensions that apply the burn-in and flatten the result
BurnedTrees(trees_of_files, burnin) ==
    Flatten([i \in 1..Len(trees_of_files) |-> Burned(trees_of_files[i], burnin)])

RECURSIVE Sum(_)
Sum(numbers) == IF numbers = <<>> THEN 0 ELSE Head(numbers) + Sum(Tail(numbers))

\* the values the output string is formatted from
Report ==
    [kind |-> "report",
     all_trees_num |-> Sum([i \in 1..Len(all_trees) |-> Len(all_trees[i])]),
     all_trees_burned_num |-> Len(all_trees_burned),
     prior |-> prior,
     expected_monophyletic |-> RoundToInt(Times(prior, Whole(Len(all_trees_burned)))),
     posterior |-> posterior,
     num_monophyletic |-> num_monophyletic,
     bayes_factor |-> bayes]

\* (1-prior)**all_trees_burned_num
ChanceLine ==
    [kind |-> "chance",
     value |-> Power(Minus(Whole(1), prior), Len(all_trees_burned))]

\* the two checks of args.species
ValidateSpecies ==
    /\ pc = "species"
    /\ IF Len(args.species) < 2
       THEN /\ output' = Append(output, [kind |-> "text",
                            value |-> "ERROR: Must specify at least 2 species."])
            /\ Abort(SystemExit)
       ELSE IF Cardinality(SetOf(args.species)) < Len(args.species)
       THEN /\ output' = Append(output, [kind |-> "text",
                            value |-> "ERROR: Please, make sure that species are unique."])
            /\ Abort(SystemExit)
       ELSE /\ pc' = "read"
            /\ UNCHANGED <<output, failure>>
    /\ UNCHANGED <<args, all_translated_taxa, all_trees, all_trees_burned, num_total,
                   translated_species, num_monophyletic, prior, posterior, bayes>>
    /\ UNCHANGED <<parseVars, equivVars, priorVars>>

\* one pass of the loop over args.input
ReadInputFile ==
    /\ pc = "read"
    /\ LET input_file == args.input[Len(all_trees) + 1]
           result     == parse_tree_file(FileSystem(input_file))
       IN  IF result.kind # "ok"
           THEN Abort(result) /\ UNCHANGED <<all_translated_taxa, all_trees>>
           ELSE IF check_species_in_taxa(args.species, result.translated_taxa).kind # "ok"
           THEN /\ Abort(check_species_in_taxa(args.species, result.translated_taxa))
                /\ UNCHANGED <<all_translated_taxa, all_trees>>
           ELSE /\ all_translated_taxa' = Append(all_translated_taxa, result.translated_taxa)
                /\ all_trees' = Append(all_trees, result.trees)
                /\ pc' = IF Len(all_trees) + 1 = Len(args.input) THEN "equivalency" ELSE "read"
                /\ UNCHANGED failure
    /\ UNCHANGED <<args, all_trees_burned, num_total, translated_species,
                   num_monophyletic, prior, posterior, bayes, output>>
    /\ UNCHANGED <<parseVars, equivVars, priorVars>>

CheckEquivalency ==
    /\ pc = "equivalency"
    /\ IF check_species_equivalency(all_translated_taxa).kind # "ok"
       THEN Abort(check_species_equivalency(all_translated_taxa))
       ELSE pc' = "burnin" /\ UNCHANGED failure
    /\ UNCHANGED <<args, all_translated_taxa, all_trees, all_trees_burned, num_total,
                   translated_species, num_monophyletic, prior, posterior, bayes, output>>
    /\ UNCHANGED <<parseVars, equivVars, priorVars>>

ApplyBurnin ==
    /\ pc = "burnin"
    /\ all_trees_burned' = BurnedTrees(all_trees, args.burnin)
    /\ num_total' = Len(all_trees_burned')
    /\ pc' = "translate"
    /\ UNCHANGED <<args, all_translated_taxa, all_trees, translated_species,
                   num_monophyletic, prior, posterior, bayes, output, failure>>
    /\ UNCHANGED <<parseVars, equivVars, priorVars>>

TranslateSpecies ==
    /\ pc = "translate"
    /\ LET result == translate_species(all_translated_taxa[1], args.species)
       IN  IF result.kind # "ok"
           THEN Abort(result) /\ UNCHANGED translated_species
           ELSE /\ translated_species' = result.value
                /\ pc' = "count"
                /\ UNCHANGED failure
    /\ UNCHANGED <<args, all_translated_taxa, all_trees, all_trees_burned, num_total,
                   num_monophyletic, prior, posterior, bayes, output>>
    /\ UNCHANGED <<parseVars, equivVars, priorVars>>

CountMonophyleticTrees ==
    /\ pc = "count"
    /\ LET result == ete2solution(all_trees_burned, translated_species)
       IN  /\ output' = output \o result.printed
           /\ IF result.kind # "ok"
              THEN Abort([kind |-> result.kind, msg |-> result.msg])
                   /\ UNCHANGED num_monophyletic
              ELSE /\ num_monophyletic' = result.value
                   /\ pc' = "prior"
                   /\ UNCHANGED failure
    /\ UNCHANGED <<args, all_translated_taxa, all_trees, all_trees_burned, num_total,
                   translated_species, prior, posterior, bayes>>
    /\ UNCHANGED <<parseVars, equivVars, priorVars>>

ComputePrior ==
    /\ pc = "prior"
    /\ LET result == compute_prior(Cardinality(DOMAIN all_translated_taxa[1].at),
                                   Len(translated_species), args.rooted)
       IN  IF result.kind # "ok"
           THEN Abort(result) /\ UNCHANGED prior
           ELSE /\ prior' = result.value
                /\ pc' = "posterior"
                /\ UNCHANGED failure
    /\ UNCHANGED <<args, all_translated_taxa, all_trees, all_trees_burned, num_total,
                   translated_species, num_monophyletic, posterior, bayes, output>>
    /\ UNCHANGED <<parseVars, equivVars, priorVars>>

ComputePosterior ==
    /\ pc = "posterior"
    /\ LET result == compute_posterior(num_monophyletic, num_total)
       IN  IF result.kind # "ok"
           THEN Abort(result) /\ UNCHANGED posterior
           ELSE /\ posterior' = result.value
                /\ pc' = "bayes"
                /\ UNCHANGED failure
    /\ UNCHANGED <<args, all_translated_taxa, all_trees, all_trees_burned, num_total,
                   translated_species, num_monophyletic, prior, bayes, output>>
    /\ UNCHANGED <<parseVars, equivVars, priorVars>>

ComputeBayesFactor ==
    /\ pc = "bayes"
    /\ LET result == bayes_factor(prior, posterior)
       IN  IF result.kind # "ok"
           THEN Abort(result) /\ UNCHANGED bayes
           ELSE /\ bayes' = result.value
                /\ pc' = "output"
                /\ UNCHANGED failure
    /\ UNCHANGED <<args, all_translated_taxa, all_trees, all_trees_burned, num_total,
                   translated_species, num_monophyletic, prior, posterior, output>>
    /\ UNCHANGED <<parseVars, equivVars, priorVars>>

PrintOutput ==
    /\ pc = "output"
    /\ output' = Append(output, Report)
    /\ pc' = "chance"
    /\ UNCHANGED <<args, all_translated_taxa, all_trees, all_trees_burned, num_total,
                   translated_species, num_monophyletic, prior, posterior, bayes, failure>>
    /\ UNCHANGED <<parseVars, equivVars, priorVars>>

PrintChance ==
    /\ pc = "chance"
    /\ output' = IF IsZero(bayes) THEN Append(output, ChanceLine) ELSE output
    /\ pc' = "done"
    /\ UNCHANGED <<args, all_translated_taxa, all_trees, all_trees_burned, num_total,
                   translated_species, num_monophyletic, prior, posterior, bayes, failure>>
    /\ UNCHANGED <<parseVars, equivVars, priorVars>>

(***************************************************************************)
(* Single calls of the functions.                                          *)
(***************************************************************************)
\* one call of parse_tree_file on the file at the path passed
ParseTreeFile ==
    /\ given # None
    /\ parsed = None
    /\ parsed' = parse_tree_file(treefile)
    /\ UNCHANGED <<treefile, given>>
    /\ UNCHANGED <<equivVars, priorVars, mainVars>>

CallCheckEquivalency ==
    /\ tables # <<>>
    /\ equivalency = None
    /\ equivalency' = check_species_equivalency(tables)
    /\ UNCHANGED tables
    /\ UNCHANGED <<parseVars, priorVars, mainVars>>

CallComputePrior ==
    /\ prior_call # None
    /\ prior_returned = None
    /\ prior_returned' = compute_prior(prior_call.num_taxa, prior_call.num_species,
                                       prior_call.rooted)
    /\ UNCHANGED <<prior_call, count_call, unrooted_returned, rooted_returned>>
    /\ UNCHANGED <<parseVars, equivVars, mainVars>>

CallUnrootedTrees ==
    /\ count_call > 0
    /\ unrooted_returned = None
    /\ unrooted_returned' = n_unrooted_trees(count_call)
    /\ UNCHANGED <<prior_call, prior_returned, count_call, rooted_returned>>
    /\ UNCHANGED <<parseVars, equivVars, mainVars>>

CallRootedTrees ==
    /\ count_call > 0
    /\ rooted_returned = None
    /\ rooted_returned' = n_rooted_trees(count_call)
    /\ UNCHANGED <<prior_call, prior_returned, count_call, unrooted_returned>>
    /\ UNCHANGED <<parseVars, equivVars, mainVars>>

(***************************************************************************)
(* Initial states and specifications.                                      *)
(***************************************************************************)
MaxTables == 3
MaxTaxa == 6
MaxInputs == 2
MaxBurninArg == 1
MaxRuns == 2
MaxRunLength == 10
MaxRetained == 3

NameA == <<"A">>
NameB == <<"B">>
NameC == <<"C">>
NameD == <<"D">>
NameE == <<"E">>
NameZ == <<"Z">>
TaxonNames == <<NameA, NameB, NameC, NameD, NameE>>

NoParse == treefile = [exists |-> FALSE] /\ parsed = None /\ given = None
NoEquivalency == tables = <<>> /\ equivalency = None
NoPrior ==
    /\ prior_call = None /\ prior_returned = None
    /\ count_call = 0 /\ unrooted_returned = None /\ rooted_returned = None
NoRun ==
    /\ pc = "idle" /\ args = None
    /\ all_translated_taxa = <<>> /\ all_trees = <<>>
    /\ all_trees_burned = None /\ num_total = 0
    /\ translated_species = None /\ num_monophyletic = 0
    /\ prior = None /\ posterior = None /\ bayes = None
    /\ output = <<>> /\ failure = None

\* parse_tree_file on files of the input format, on files of arbitrary
\* lines and on a path that cannot be opened
InitParse ==
    /\ parsed = None
    /\ \/ /\ given \in NexusShapes
          /\ treefile = [exists |-> TRUE, lines |-> NexusFile(given)]
       \/ /\ given = [shape |-> "lines"]
          /\ \E lines \in AnyFiles : treefile = [exists |-> TRUE, lines |-> lines]
       \/ /\ given = [shape |-> "missing"]
          /\ treefile = [exists |-> FALSE]
    /\ NoEquivalency /\ NoPrior /\ NoRun

NextParse == ParseTreeFile
SpecParse == InitParse /\ [][NextParse]_vars

\* check_species_equivalency on lists of translate tables
EquivNames == {NameA, NameB}
\* two ids that share a slot of the hash table, so that the two orders of
\* storing them give two different tables
EquivIds == {1, 9}
TableSet ==
    {DictOf(pairs) :
        pairs \in {p \in UNION {[1..n -> EquivIds \X EquivNames] :
                                   n \in 0..Cardinality(EquivIds)} :
                      \A i, j \in 1..Len(p) : p[i][1] = p[j][1] => i = j}}

InitEquivalency ==
    /\ tables \in UNION {[1..n -> TableSet] : n \in 1..MaxTables}
    /\ equivalency = None
    /\ NoParse /\ NoPrior /\ NoRun

NextEquivalency == CallCheckEquivalency
SpecEquivalency == InitEquivalency /\ [][NextEquivalency]_vars

\* compute_prior on 2 <= num_species <= num_taxa, the counting functions on
\* the arguments compute_prior passes them
InitPrior ==
    /\ \E t \in 2..MaxTaxa, k \in 2..MaxTaxa, r \in BOOLEAN :
          /\ k <= t
          /\ prior_call = [num_taxa |-> t, num_species |-> k, rooted |-> r]
    /\ count_call \in 1..MaxTaxa
    /\ prior_returned = None /\ unrooted_returned = None /\ rooted_returned = None
    /\ NoParse /\ NoEquivalency /\ NoRun

NextPrior == CallComputePrior \/ CallUnrootedTrees \/ CallRootedTrees
SpecPrior == InitPrior /\ [][NextPrior]_vars

\* the whole script, from the command line on
DefaultBurnin == Fraction(1, 5)
BurninChoices == {DefaultBurnin} \cup {Whole(b) : b \in 0..MaxBurninArg}

SpeciesChoices == { <<NameA>>, <<NameA, NameA>>, <<NameA, NameB>>, <<NameA, NameD>>,
                    <<NameC, NameD>>, <<NameA, NameB, NameC>>, <<NameA, NameZ>> }

InitRun ==
    /\ pc = "species"
    /\ args \in [species : SpeciesChoices,
                 input : UNION {[1..n -> FileNames] : n \in 1..MaxInputs},
                 burnin : BurninChoices,
                 rooted : BOOLEAN]
    /\ all_translated_taxa = <<>> /\ all_trees = <<>>
    /\ all_trees_burned = None /\ num_total = 0
    /\ translated_species = None /\ num_monophyletic = 0
    /\ prior = None /\ posterior = None /\ bayes = None
    /\ output = <<>> /\ failure = None
    /\ NoParse /\ NoEquivalency /\ NoPrior

NextRun ==
    \/ ValidateSpecies
    \/ ReadInputFile
    \/ CheckEquivalency
    \/ ApplyBurnin
    \/ TranslateSpecies
    \/ CountMonophyleticTrees
    \/ ComputePrior
    \/ ComputePosterior
    \/ ComputeBayesFactor
    \/ PrintOutput
    \/ PrintChance
SpecRun == InitRun /\ [][NextRun]_vars

\* the script from the burn-in statement on, after files of every length
\* were read; tree j of file i is the two-leaf cladogram (i,j)
SampleTree(i, j) == <<"(">> \o Str(i) \o <<",">> \o Str(j) \o <<")">>
TableOf(t) == DictOf([k \in 1..t |-> <<k, TaxonNames[k]>>])

InitBurnin ==
    /\ pc = "burnin"
    /\ \E lens \in UNION {[1..n -> 0..MaxRunLength] : n \in 1..MaxRuns},
          b \in BurninChoices :
          /\ all_trees = [i \in 1..Len(lens) |-> [j \in 1..lens[i] |-> SampleTree(i, j)]]
          /\ all_translated_taxa = [i \in 1..Len(lens) |-> TableOf(4)]
          /\ args = [species |-> <<NameA, NameB>>,
                     input |-> [i \in 1..Len(lens) |-> "sample.t"],
                     burnin |-> b, rooted |-> FALSE]
    /\ all_trees_burned = None /\ num_total = 0
    /\ translated_species = None /\ num_monophyletic = 0
    /\ prior = None /\ posterior = None /\ bayes = None
    /\ output = <<>> /\ failure = None
    /\ NoParse /\ NoEquivalency /\ NoPrior

NextBurnin == ApplyBurnin
SpecBurnin == InitBurnin /\ [][NextBurnin]_vars

\* the script from the call of ete2solution on, after trees on 4 or 5 taxa
\* were retained
RECURSIVE SortedSeqOf(_)
SortedSeqOf(S) == IF S = {} THEN <<>> ELSE <<Least(S)>> \o SortedSeqOf(S \ {Least(S)})

TopologiesOn(t) == IF t = 4 THEN Topologies4 ELSE Topologies5

InitStatistics ==
    /\ pc = "count"
    /\ \E t \in {4, 5}, r \in BOOLEAN :
       \E ids \in SUBSET (1..t),
          picks \in UNION {[1..n -> 1..Len(TopologiesOn(t))] : n \in 0..MaxRetained} :
          /\ Cardinality(ids) >= 2
          /\ all_trees_burned = [i \in 1..Len(picks) |-> TopologiesOn(t)[picks[i]]]
          /\ all_trees = <<all_trees_burned>>
          /\ num_total = Len(picks)
          /\ all_translated_taxa = <<TableOf(t)>>
          /\ translated_species = [i \in 1..Cardinality(ids) |-> Str(SortedSeqOf(ids)[i])]
          /\ args = [species |-> [i \in 1..Cardinality(ids) |-> TaxonNames[SortedSeqOf(ids)[i]]],
                     input |-> <<"sample.t">>, burnin |-> Whole(0), rooted |-> r]
    /\ num_monophyletic = 0
    /\ prior = None /\ posterior = None /\ bayes = None
    /\ output = <<>> /\ failure = None
    /\ NoParse /\ NoEquivalency /\ NoPrior

NextStatistics ==
    \/ CountMonophyleticTrees
    \/ ComputePrior
    \/ ComputePosterior
    \/ ComputeBayesFactor
    \/ PrintOutput
    \/ PrintChance
SpecStatistics == InitStatistics /\ [][NextStatistics]_vars

(***************************************************************************)
(* Properties.                                                             *)
(***************************************************************************)
AfterCount == {"prior", "posterior", "bayes", "output", "chance", "done"}

\* the leaf sets of the internal nodes, and the leaf set, of the tree a
\* topology string denotes
NodeSets(topology) == {c \in Clades(Tree(topology \o <<";">>)) : Cardinality(c) >= 2}
LeafSet(topology) == Leaves(Tree(topology \o <<";">>))

\* monophyly as defined for the two kinds of input: some node's leaf set is
\* S, or, for unrooted input only, some node's leaf set is the complement of S
MonophyleticAsDefined(topology, S, rooted) ==
    \/ S \in NodeSets(topology)
    \/ ~rooted /\ (LeafSet(topology) \ S) \in NodeSets(topology)

\* C1: for a target set S with 2 <= |S| < number of leaves, the trees counted
\* as monophyletic are those where some node's leaf set equals S, or, when the
\* rooted flag is off, equals the complement of S; so ((1,2),(3,4),5) with
\* S = {3,4,5} counts when rooted is off and does not when it is on.
C1_ClassificationFollowsRootedFlag ==
    (pc \in AfterCount
        /\ Len(translated_species) < Cardinality(DOMAIN all_translated_taxa[1].at))
    => num_monophyletic =
         Cardinality({i \in 1..Len(all_trees_burned) :
                        MonophyleticAsDefined(all_trees_burned[i],
                                              SetOf(translated_species), args.rooted)})

\* C2: a file of the input format with N tree lines parses to exactly its N
\* topology strings in file order, whether a lone ";" line or the first tree
\* line ends the translate block.
C2_EveryTreeLineParsed ==
    (given.shape = "nexus" /\ parsed # None)
    => (parsed.kind = "ok" /\ parsed.trees = Payloads(given))

\* floor(L * f) for the fraction f
FloorOfProduct(L, f) == (L * f.num) \div f.den
KeptFrom(i) == Len(all_trees[i]) - FloorOfProduct(Len(all_trees[i]), args.burnin)
RECURSIVE KeptBefore(_)
KeptBefore(i) == IF i = 1 THEN 0 ELSE KeptBefore(i - 1) + KeptFrom(i - 1)

\* C3: with a burn-in fraction f in [0,1) each file loses exactly its first
\* floor(L*f) trees and keeps the rest in order; the retained sequence is the
\* per-file suffixes one after the other in input order, so its length is the
\* sum of L_i - floor(L_i*f) (10 trees with f = 0.2 keep the last 8).
C3_BurninPerFile ==
    (pc = "translate" /\ 0 <= args.burnin.num /\ args.burnin.num < args.burnin.den)
    => /\ Len(all_trees_burned) = KeptBefore(Len(all_trees) + 1)
       /\ num_total = KeptBefore(Len(all_trees) + 1)
       /\ \A i \in 1..Len(all_trees) : \A j \in 1..KeptFrom(i) :
             all_trees_burned[KeptBefore(i) + j]
               = all_trees[i][FloorOfProduct(Len(all_trees[i]), args.burnin) + j]
       /\ (Len(all_trees) = 1 /\ Len(all_trees[1]) = 10 /\ args.burnin = Fraction(1, 5))
             => all_trees_burned = SubSeq(all_trees[1], 3, 10)

C3_Witness ==
    /\ pc = "translate"
    /\ args.burnin = Fraction(1, 5)
    /\ Len(all_trees) = 2
    /\ Len(all_trees[1]) = 10 /\ Len(all_trees[2]) = 4
    /\ num_total = 12

\* the topology counts as the claims state them
UnrootedTopologies(n) ==
    IF n < 3 THEN 1
    ELSE Factorial(2 * n - 5) \div (TwoTo(n - 3) * Factorial(n - 3))
RootedTopologies(n) ==
    IF n < 2 THEN 1
    ELSE Factorial(2 * n - 3) \div (TwoTo(n - 2) * Factorial(n - 2))
TopologiesFor(n, rooted) == IF rooted THEN RootedTopologies(n) ELSE UnrootedTopologies(n)
PriorFormula(call) ==
    Fraction(TopologiesFor(call.num_taxa - call.num_species + 1, call.rooted)
                * RootedTopologies(call.num_species),
             TopologiesFor(call.num_taxa, call.rooted))
DegeneratePrior == {Raise("ValueError", "Prior is one."), Raise("ValueError", "Prior is zero.")}

\* C4: for 2 <= K <= T compute_prior returns the value of the formula, which
\* is then strictly between 0 and 1, or fails with the degenerate-prior
\* error, and it fails exactly when the formula's value is 0 or 1.
C4_PriorOrDegenerate ==
    prior_returned # None
    => IF IsZero(PriorFormula(prior_call)) \/ IsOne(PriorFormula(prior_call))
       THEN prior_returned \in DegeneratePrior
       ELSE /\ prior_returned = NumberOf(PriorFormula(prior_call))
            /\ 0 < PriorFormula(prior_call).num
            /\ PriorFormula(prior_call).num < PriorFormula(prior_call).den

\* C5: the counting functions return a number for every n they are called
\* with: 1 below the formula's range (n < 3 unrooted, n < 2 rooted), the
\* formula's value from there on; neither raises.
C5_CountsAreTotal ==
    /\ unrooted_returned # None
          => unrooted_returned = NumberOf(Whole(UnrootedTopologies(count_call)))
    /\ rooted_returned # None
          => rooted_returned = NumberOf(Whole(RootedTopologies(count_call)))

\* the retained trees check_monophyly answers True for
ClassifiedMonophyletic ==
    {i \in 1..Len(all_trees_burned) :
        check_monophyly(Tree(all_trees_burned[i] \o <<";">>), translated_species).value}

\* C6: the count passed on is the number of retained trees classified
\* monophyletic; with 0 <= m <= n, n > 0, compute_posterior gives m/n when
\* m < n (m = 0 included) and fails with "Posterior is one" exactly when
\* m = n, so every posterior that is reported lies in [0,1).
C6_Posterior ==
    /\ pc \in AfterCount => num_monophyletic = Cardinality(ClassifiedMonophyletic)
    /\ (prior # None /\ pc # "posterior" /\ num_total > 0)
       => IF num_monophyletic = num_total
          THEN /\ pc = "exit"
               /\ failure = Raise("ValueError", "Posterior is one")
               /\ posterior = None
          ELSE /\ failure = None
               /\ posterior # None
               /\ posterior.den > 0
               /\ posterior.num * num_total = num_monophyletic * posterior.den
               /\ 0 <= posterior.num /\ posterior.num < posterior.den
    /\ \A k \in 1..Len(output) :
          output[k].kind = "report"
          => (0 <= output[k].posterior.num
                /\ output[k].posterior.num < output[k].posterior.den)

C6_Witness ==
    /\ pc = "exit"
    /\ num_total >= 2
    /\ num_monophyletic = num_total
    /\ failure = Raise("ValueError", "Posterior is one")

RECURSIVE IntPower(_, _)
IntPower(b, n) == IF n = 0 THEN 1 ELSE b * IntPower(b, n - 1)

ChanceLines == {k \in 1..Len(output) : output[k].kind = "chance"}

\* C7: the Bayes factor is odds(posterior)/odds(prior), odds(p) = p/(1-p);
\* it is >= 0 and is 0 exactly when no tree was monophyletic (prior 1/5 and
\* posterior 1/2 give 4); the chance-alone probability (1-prior)^n is printed
\* in exactly the runs whose Bayes factor is 0.
C7_BayesFactor ==
    /\ bayes # None
       => /\ bayes.den > 0 /\ bayes.num >= 0
          /\ bayes.num * (posterior.den - posterior.num) * prior.num
               = bayes.den * posterior.num * (prior.den - prior.num)
          /\ (bayes.num = 0) <=> (num_monophyletic = 0)
          /\ (prior = Fraction(1, 5) /\ posterior = Fraction(1, 2)) => bayes = Whole(4)
    /\ ChanceLines # {} => (bayes # None /\ bayes.num = 0)
    /\ \A k \in ChanceLines :
          /\ output[k].value.num = IntPower(prior.den - prior.num, num_total)
          /\ output[k].value.den = IntPower(prior.den, num_total)
    /\ (pc = "done" /\ bayes.num = 0) => ChanceLines # {}

C7_Witness ==
    /\ pc = "done"
    /\ prior = Fraction(1, 5)
    /\ posterior = Fraction(1, 2)
    /\ bayes = Whole(4)
    /\ ChanceLines = {}

\* two tables hold the same (id, name) pairs
SamePairs(a, b) ==
    /\ Cardinality(DOMAIN a.at) = Cardinality(DOMAIN b.at)
    /\ {<<k, a.at[k]>> : k \in DOMAIN a.at} = {<<k, b.at[k]>> : k \in DOMAIN b.at}
Mismatching == {i \in 2..Len(tables) : ~SamePairs(tables[1], tables[i])}

\* C8: the check passes iff every table after the first has as many entries
\* and the same (id, name) pairs as the first, in whatever order the entries
\* were stored (a single table always passes); otherwise it fails naming the
\* first mismatching table by its 1-based position in the list.
C8_Equivalency ==
    equivalency # None
    => IF Mismatching = {}
       THEN equivalency = Returned
       ELSE /\ equivalency.kind = "RuntimeError"
            /\ equivalency.file = Least(Mismatching)

C8_Witness ==
    /\ equivalency # None
    /\ Len(tables) = 3
    /\ SamePairs(tables[1], tables[2])
    /\ tables[1] # tables[2]
    /\ Cardinality(DOMAIN tables[3].at) = Cardinality(DOMAIN tables[1].at)
    /\ equivalency.kind = "RuntimeError"
    /\ equivalency.file = 3

\* what the steps of a run give on its command line
Statistics == {k \in 1..Len(output) : output[k].kind \in {"report", "chance"}}
SpeciesValid ==
    /\ Len(args.species) >= 2
    /\ Cardinality(SetOf(args.species)) = Len(args.species)
ParsedInput(i) == parse_tree_file(FileSystem(args.input[i]))
InputsValid ==
    \A i \in 1..Len(args.input) :
        /\ ParsedInput(i).kind = "ok"
        /\ check_species_in_taxa(args.species, ParsedInput(i).translated_taxa).kind = "ok"
TablesEquivalent ==
    \A i \in 1..Len(args.input) :
        SamePairs(ParsedInput(1).translated_taxa, ParsedInput(i).translated_taxa)
RetainedTrees ==
    BurnedTrees([i \in 1..Len(args.input) |-> ParsedInput(i).trees], args.burnin)
Classification ==
    ete2solution(RetainedTrees,
                 translate_species(ParsedInput(1).translated_taxa, args.species).value)
PriorComputed ==
    compute_prior(Cardinality(DOMAIN ParsedInput(1).translated_taxa.at),
                  Len(args.species), args.rooted).kind = "ok"
PosteriorComputed ==
    compute_posterior(Classification.value, Len(RetainedTrees)).kind = "ok"

\* C9: no statistic is printed unless the species list is valid, every input
\* file parsed and holds the species, the tables are equivalent, every
\* retained tree was classified and prior and posterior were computed; the
\* species list is validated before any file is parsed; a run that fails has
\* printed no statistic.
C9_NoStatisticBeforeAllChecks ==
    /\ Statistics # {}
       => /\ SpeciesValid /\ InputsValid /\ TablesEquivalent
          /\ Classification.kind = "ok" /\ PriorComputed /\ PosteriorComputed
          /\ pc \in {"chance", "done"}
    /\ (pc # "species" /\ failure # SystemExit) => SpeciesValid
    /\ failure # None => Statistics = {}

C9_Witness ==
    /\ pc = "done"
    /\ Len(args.input) = 2
    /\ Statistics # {}

\* the error the steps of the parser give, in their order; "" when none fails
NonEmptyLines(text) == {i \in 1..Len(text) : Strip(text[i], Whitespace) # <<>>}
BeginLines(text) == {i \in 1..Len(text) : Lower(Strip(text[i], Whitespace)) = BeginTrees}
NonPairLines(text, from) ==
    {i \in from..Len(text) : Len(Split(Strip(text[i], Whitespace \cup {",", ";"}))) # 2}
TreeLinesFrom(text, from) ==
    {i \in from..Len(text) : Lower(Slice(Strip(text[i], Whitespace), 0, 4)) = TreeWord}
FirstViolatedStep(text) ==
    IF NonEmptyLines(text) = {}
       \/ Lower(Strip(text[Least(NonEmptyLines(text) \cup {Len(text) + 1})], Whitespace))
            # NexusHeader
    THEN NotNexus
    ELSE IF BeginLines(text) = {} THEN NoTreesBlock
    ELSE LET b == Least(BeginLines(text)) IN
    IF b + 1 > Len(text) \/ Lower(Strip(text[b + 1], Whitespace)) # Translate
    THEN MalformedTranslate
    ELSE IF NonPairLines(text, b + 2) = {} THEN NoTranslateEnd
    ELSE IF TreeLinesFrom(text, Least(NonPairLines(text, b + 2))) = {} THEN NoTrees
    ELSE ""

\* C10: on every sequence of lines parse_tree_file returns the table and the
\* topologies or fails with a ParsingError and with no other kind of error;
\* the error is that of the first step violated: NotNexus, else NoTreesBlock,
\* else MalformedTranslate, else NoTranslateEnd, else NoTrees.
C10_OnlyParsingErrors ==
    (parsed # None /\ treefile.exists)
    => /\ parsed.kind \in {"ok", "ParsingError"}
       /\ FirstViolatedStep(treefile.lines) # ""
             => parsed = Raise("ParsingError", FirstViolatedStep(treefile.lines))

=============================================================================
